---- MODULE Spec2Model ----
(***************************************************************************)
(* A model of three parts of argo-events:                                  *)
(*   - the gateway controller's reconcile pass, gwOperationCtx.operate,    *)
(*     with validate, createGatewayService and reapplyUpdate;              *)
(*   - the gateway transformer's configuration watcher, updateConfig;      *)
(*   - the webhook gateway's route table, webhook.RunConfiguration.        *)
(* Every call to the Kubernetes API is one step, so that the order of the  *)
(* calls of a pass and their failures are visible.                         *)
(***************************************************************************)
EXTENDS Integers, Sequences, FiniteSets, TLC

(***************************************************************************)
(* Bounds of the model.                                                    *)
(***************************************************************************)
\* longest consumer (sensor) list of a Gateway
MaxSensors == 2
\* most retryable errors the API server answers in a row to Gateway updates
MaxConflicts == 5

\* common.DefaultRetry.Steps: the attempts wait.ExponentialBackoff makes
RetrySteps == 5

(***************************************************************************)
(* Strings that the code takes apart are sequences of characters.          *)
(***************************************************************************)
Comma == ","

\* strings.Join(elems, sep)
RECURSIVE Join(_, _)
Join(elems, sep) ==
    IF Len(elems) = 0 THEN <<>>
    ELSE IF Len(elems) = 1 THEN elems[1]
    ELSE elems[1] \o <<sep>> \o Join(Tail(elems), sep)

\* strings.Split(s, sep) for a one-character sep: the pieces between the
\* separators; a string without separator, the empty one included, is one piece
RECURSIVE SplitAcc(_, _, _)
SplitAcc(s, sep, cur) ==
    IF Len(s) = 0 THEN <<cur>>
    ELSE IF Head(s) = sep THEN <<cur>> \o SplitAcc(Tail(s), sep, <<>>)
    ELSE SplitAcc(Tail(s), sep, Append(cur, Head(s)))

Split(s, sep) == SplitAcc(s, sep, <<>>)

(***************************************************************************)
(* The Gateway resource (v1alpha1.Gateway), the fields operate reads.      *)
(***************************************************************************)
NodePhaseNew == "New"
NodePhaseRunning == "Running"
NodePhaseError == "Error"
\* a status outside the enumeration
UnknownPhase == "Unknown"
\* the status of a zero-value Gateway
ZeroPhase == ""

HTTPGateway == "HTTP"
NATSGateway == "NATS"
KafkaGateway == "KAFKA"

PullAlways == "Always"

GatewayName == "gw"

\* the sensor names a Gateway may list
SensorNames == {<<"a">>, <<"b", "c">>}

RECURSIVE SeqsUpTo(_, _)
SeqsUpTo(S, n) ==
    IF n = 0 THEN {<<>>}
    ELSE LET shorter == SeqsUpTo(S, n - 1)
         IN  shorter \union {Append(q, x) : q \in {r \in shorter : Len(r) = n - 1}, x \in S}

SensorLists == SeqsUpTo(SensorNames, MaxSensors)

\* &v1alpha1.Gateway{}: what the REST client returns together with an error
ZeroGateway ==
    [Name |-> "", DeploySpec |-> FALSE, Type |-> "", Version |-> "",
     DispatchMechanism |-> "", Watchers |-> "nil", Sensors |-> <<>>,
     Image |-> "", ImagePullPolicy |-> "", ServicePort |-> 0,
     Status |-> ZeroPhase]

(***************************************************************************)
(* Names of the owned resources (package common).                          *)
(***************************************************************************)
DefaultGatewayTransformerConfigMapName(name) == name \o "-gateway-transformer-configmap"
DefaultGatewayDeploymentName(name) == name \o "-gateway-deployment"
DefaultGatewayServiceName(name) == name \o "-gateway-svc"

\* keys of the transformer configuration (package common)
EventSource == "source"
EventTypeVersion == "eventTypeVersion"
EventType == "eventType"
SensorList == "sensors"

(***************************************************************************)
(* State.                                                                  *)
(***************************************************************************)
VARIABLES
    \* the API server: the resources of each kind, by name
    gateways, configMaps, deployments, services,
    \* gwOperationCtx of the running pass: goc.gw (with goc.nil when the
    \* pointer is nil), the position in operate and what operate returned
    goc, pc, ret,
    \* gDeployment, the deployment the Error branch fetched
    gDeployment,
    \* the state of reapplyUpdate's backoff loop
    retry,
    \* what the API server will answer to the next Gateway updates
    updScript,
    \* history of the pass: the API calls it issued, the Gateway as the pass
    \* found it, and the outcomes of its deployment create, service create
    \* and deployment update
    calls, passStart, depCreated, svcCreated, depUpdated

gwVars == <<gateways, configMaps, deployments, services, goc, pc, ret,
            gDeployment, retry, updScript, calls, passStart, depCreated,
            svcCreated, depUpdated>>

\* The configuration watcher (package transform).
VARIABLES
    \* t.Config, the published snapshot
    tConfig,
    \* what the latest call of updateConfig returned ("" before the first)
    cwErr,
    \* history: whether the data of the latest notification had all four
    \* keys, the data of the latest notification that had them, and who wrote
    \* that data ("engine": the reconcile engine, "user": anyone else)
    lastHadAll, lastComplete, completeWriter

cwVars == <<tConfig, cwErr, lastHadAll, lastComplete, completeWriter>>

\* The webhook gateway (package main of the webhook).
VARIABLES
    \* the hook each configuration carries (config.Config, parsed)
    hook,
    \* RunConfiguration of each configuration: its position, and the position
    \* of the goroutine that waits for the stop signal
    wpc, cleaner,
    \* config.StopCh is closed
    stopCh,
    \* the package variables hasServerStarted, activeRoutes and mut (the
    \* configuration that holds the mutex, or "free")
    hasServerStarted, activeRoutes, mut,
    \* the http servers started (the ports of the ListenAndServe calls)
    listeners,
    \* http.DefaultServeMux: the configuration whose closure serves a path
    handlers,
    \* the process has died
    crashed,
    \* the request being served
    req

whVars == <<hook, wpc, cleaner, stopCh, hasServerStarted, activeRoutes, mut,
            listeners, handlers, crashed, req>>

vars == <<gwVars, cwVars, whVars>>

(***************************************************************************)
(* The Gateways a user can have applied.                                   *)
(***************************************************************************)
GatewaysWith(sensorLists) ==
    {g \in [Name : {GatewayName}, DeploySpec : BOOLEAN, Type : {"", "webhook"},
            Version : {"", "v1"},
            DispatchMechanism : {HTTPGateway, NATSGateway, KafkaGateway, "other"},
            Watchers : {"nil", "empty", "set"}, Sensors : sensorLists,
            Image : {"img:2"}, ImagePullPolicy : {"", "IfNotPresent"},
            ServicePort : {0, 80},
            Status : {NodePhaseNew, NodePhaseRunning, NodePhaseError,
                      UnknownPhase}] :
        \* watchers are drawn for the HTTP mechanism, which alone reads them
        g.DispatchMechanism # HTTPGateway => g.Watchers = "nil"}

\* the Gateways of the reconcile engine's runs
Gateways == GatewaysWith({<<<<"a">>, <<"b", "c">>>>})

\* a deployment the engine did not create, under the Gateway's own name
ForeignDeployments ==
    {[Name |-> GatewayName, Owner |-> "user", ServiceAccountName |-> "default",
      Containers |-> cs] :
        cs \in {<<[Name |-> "app", ImagePullPolicy |-> "IfNotPresent",
                   Image |-> "img:1", Env |-> <<>>]>>,
                <<[Name |-> "app", ImagePullPolicy |-> "IfNotPresent",
                   Image |-> "img:1", Env |-> <<>>],
                  [Name |-> "sidecar", ImagePullPolicy |-> "Always",
                   Image |-> "side:1", Env |-> <<<<"K", "v">>>>]>>}}

NoResources == [n \in {} |-> 0]

(***************************************************************************)
(* validate (controllers/gateway/validate.go): the error, "nil" for none.  *)
(***************************************************************************)
\* validate without its version check
validate_NoVersionCheck(gw) ==
    IF ~gw.DeploySpec THEN "gateway deploy specification is not specified"
    ELSE IF gw.Type = "" THEN "gateway type is not specified"
    ELSE CASE gw.DispatchMechanism = HTTPGateway ->
                IF gw.Watchers = "nil" \/ gw.Watchers = "empty"
                THEN "no associated watchers with gateway"
                ELSE "nil"
           [] gw.DispatchMechanism = NATSGateway -> "nil"
           [] gw.DispatchMechanism = KafkaGateway -> "nil"
           [] OTHER -> "unknown gateway type"

validate(gw) ==
    IF ~gw.DeploySpec THEN "gateway deploy specification is not specified"
    ELSE IF gw.Type = "" THEN "gateway type is not specified"
    ELSE IF gw.Version = "" THEN "gateway version is not specified"
    ELSE CASE gw.DispatchMechanism = HTTPGateway ->
                IF gw.Watchers = "nil" \/ gw.Watchers = "empty"
                THEN "no associated watchers with gateway"
                ELSE "nil"
           [] gw.DispatchMechanism = NATSGateway -> "nil"
           [] gw.DispatchMechanism = KafkaGateway -> "nil"
           [] OTHER -> "unknown gateway type"

(***************************************************************************)
(* The answers of the API server to Gateway updates.                       *)
(***************************************************************************)
Retryable(n) == [i \in 1..n |-> "retryable"]

\* the outcome of a direct update and, when it fails, of the updates of
\* reapplyUpdate that follow: retryable errors, then success or a fatal error
ScriptTails ==
    {<<"ok">>} \union
    {<<d>> \o Retryable(n) \o <<t>> :
        d \in {"retryable", "forbidden"}, n \in 0..MaxConflicts,
        t \in {"ok", "forbidden", "invalid"}}

\* a pass makes one direct update, or two when the configmap create fails
Scripts == ScriptTails \union {<<"ok">> \o s : s \in ScriptTails}

\* updScript before the first Gateway update of a pass: the answers are fixed
\* when the pass makes that update
Undecided == <<"undecided">>

\* the answers the server may have ready at an update
ScriptsAt(all) == IF updScript = Undecided THEN all ELSE {updScript}

\* the next answer; the server accepts once the script is used up
NextOutcome(script) == IF script = <<>> THEN "ok" ELSE Head(script)
RestScript(script) == IF script = <<>> THEN <<>> ELSE Tail(script)

\* common.IsRetryableKubeAPIError
IsRetryableKubeAPIError(e) == e = "retryable"

\* The object a client returns together with an error is not the stored
\* object: the REST client returns the zero value, the fake clientset nil; a
\* client may also hand back the object it was given.
FailedResults(obj) ==
    {[gw |-> ZeroGateway, nil |-> FALSE],
     [gw |-> ZeroGateway, nil |-> TRUE],
     [gw |-> obj, nil |-> FALSE]}

(***************************************************************************)
(* The resources operate builds.                                           *)
(***************************************************************************)
\* the data of the transformer configmap (operate, the New branch)
ConfigMapData(gw) ==
    (EventSource :> gw.Name) @@ (EventTypeVersion :> gw.Version) @@
    (EventType :> gw.Type) @@ (SensorList :> Join(gw.Sensors, Comma))

\* (Writer is history: who wrote the data)
gatewayConfigMap(gw) ==
    [Name |-> DefaultGatewayTransformerConfigMapName(gw.Name),
     Owner |-> gw.Name, Data |-> ConfigMapData(gw), Writer |-> "engine"]

\* "set the image policy if not specified"
DefaultPullPolicy(gw) ==
    IF gw.ImagePullPolicy = "" THEN [gw EXCEPT !.ImagePullPolicy = PullAlways]
    ELSE gw

gatewayDeployment(gw) ==
    [Name |-> DefaultGatewayDeploymentName(gw.Name), Owner |-> gw.Name,
     ServiceAccountName |-> "sa",
     Containers |->
        <<[Name |-> "gateway-processor", ImagePullPolicy |-> gw.ImagePullPolicy,
           Image |-> gw.Image,
           Env |-> <<<<"GatewayTransformerPortEnvVar", "GatewayTransformerPort">>,
                     <<"EnvVarNamespace", "ns">>>>],
          [Name |-> "gateway-transformer", ImagePullPolicy |-> PullAlways,
           Image |-> "GatewayEventTransformerImage",
           Env |-> <<<<"GatewayTransformerConfigMapEnvVar",
                       DefaultGatewayTransformerConfigMapName(gw.Name)>>,
                     <<"EnvVarNamespace", "ns">>>>]>>]

gatewayService(gw) ==
    [Name |-> DefaultGatewayServiceName(gw.Name), Owner |-> gw.Name,
     Port |-> gw.ServicePort]

\* the two statuses exchanged
StatusAfterDeployment_Swapped(created) ==
    IF created THEN NodePhaseError ELSE NodePhaseRunning

\* the status operate sets after the deployment create (created: it succeeded)
StatusAfterDeployment(created) ==
    IF created THEN NodePhaseRunning ELSE NodePhaseError

\* whether operate calls createGatewayService
WantsService(gw) == gw.ServicePort # 0

\* the service create moved out of the success branch
AfterDeployment_ServiceAlways(created, gw) ==
    IF gw.ServicePort # 0 THEN "svcCreate" ELSE "updNew"

\* where operate goes after the deployment create
AfterDeployment(created, gw) ==
    IF created /\ WantsService(gw) THEN "svcCreate" ELSE "updNew"

\* the image set on every container
PatchImage_AllContainers(dep, image) ==
    [dep EXCEPT !.Containers =
        [i \in 1..Len(dep.Containers) |-> [dep.Containers[i] EXCEPT !.Image = image]]]

\* "If image has been updated": the patch of the fetched deployment
PatchImage(dep, image) == [dep EXCEPT !.Containers[1].Image = image]

\* the name the Error branch fetches the deployment under
RepairDeploymentName(gw) == gw.Name

(***************************************************************************)
(* operate, one action per API call.                                       *)
(***************************************************************************)
\* site: the update that failed; i: the loop's step; g: the fetched Gateway;
\* entry: the answers the server had ready when reapplyUpdate was entered;
\* updates, gets: the calls made; last: the answer to the latest update;
\* ret: what reapplyUpdate returned
NoRetry == [site |-> "none", i |-> 0, g |-> ZeroGateway, entry |-> <<>>,
            updates |-> 0, gets |-> 0, last |-> "", ret |-> ""]

Issue(op, kind, name) == calls' = Append(calls, <<op, kind, name>>)

\* operate starts on a copy of the Gateway, validates it and switches on its
\* status
operate_begin ==
    /\ pc \in {"idle", "returned"}
    /\ LET gw == gateways[GatewayName]
           e == validate(gw)
       IN  /\ passStart' = gw
           /\ IF e # "nil"
              THEN /\ pc' = "returned" /\ ret' = e
                   /\ goc' = [gw |-> gw, nil |-> FALSE]
                   /\ updScript' = <<>>
              ELSE CASE gw.Status = NodePhaseNew ->
                        /\ pc' = "cmCreate" /\ ret' = ""
                        /\ goc' = [gw |-> [gw EXCEPT !.Status = NodePhaseRunning],
                                   nil |-> FALSE]
                        /\ updScript' = Undecided
                     [] gw.Status = NodePhaseError ->
                        /\ pc' = "depGet" /\ ret' = ""
                        /\ goc' = [gw |-> gw, nil |-> FALSE]
                        /\ updScript' = Undecided
                     [] gw.Status = NodePhaseRunning ->
                        /\ pc' = "returned" /\ ret' = "nil"
                        /\ goc' = [gw |-> gw, nil |-> FALSE]
                        /\ updScript' = <<>>
                     [] OTHER ->
                        \* goc.log.Panic()
                        /\ pc' = "panicked" /\ ret' = ""
                        /\ goc' = [gw |-> gw, nil |-> FALSE]
                        /\ updScript' = <<>>
    /\ calls' = <<>>
    /\ depCreated' = "none"
    /\ svcCreated' = "none"
    /\ depUpdated' = "none"
    /\ gDeployment' = NoResources
    /\ retry' = NoRetry
    /\ UNCHANGED <<gateways, configMaps, deployments, services>>
    /\ UNCHANGED <<cwVars, whVars>>

\* a failed direct update overwrites goc.gw and enters reapplyUpdate
EnterReapply(site, failed, script) ==
    /\ goc' = failed
    /\ retry' = [NoRetry EXCEPT !.site = site, !.entry = RestScript(script)]
    /\ pc' = "rGet"
    /\ ret' = ""

\* the status of line 56 is left in place when the configmap create fails
MarkFailed_KeepStatus(gw) == gw

\* "mark gateway as failed": goc.gw.Status = v1alpha1.NodePhaseError
MarkFailed(gw) == [gw EXCEPT !.Status = NodePhaseError]

\* create gateway transformer configmap
createConfigMap ==
    /\ pc = "cmCreate"
    /\ LET cm == gatewayConfigMap(goc.gw)
       IN  /\ Issue("create", "configmap", cm.Name)
           /\ \E ok \in BOOLEAN :
                /\ ok => cm.Name \notin DOMAIN configMaps
                /\ IF ok
                   THEN /\ configMaps' = (cm.Name :> cm) @@ configMaps
                        /\ goc' = [goc EXCEPT !.gw = DefaultPullPolicy(goc.gw)]
                        /\ pc' = "depCreate"
                   ELSE /\ configMaps' = configMaps
                        /\ goc' = [goc EXCEPT !.gw = MarkFailed(goc.gw)]
                        /\ pc' = "updCm"
    /\ UNCHANGED <<gateways, deployments, services, ret, gDeployment, retry,
                   updScript, passStart, depCreated, svcCreated, depUpdated>>
    /\ UNCHANGED <<cwVars, whVars>>

\* "mark gateway as failed": the direct update after a failed configmap create
updateMarkFailed ==
    /\ pc = "updCm"
    /\ Issue("update", "gateway", goc.gw.Name)
    /\ \E script \in ScriptsAt(Scripts) :
        /\ updScript' = RestScript(script)
        /\ IF NextOutcome(script) = "ok"
           THEN /\ gateways' = [gateways EXCEPT ![goc.gw.Name] = goc.gw]
                /\ goc' = [goc EXCEPT !.gw = DefaultPullPolicy(goc.gw)]
                /\ pc' = "depCreate"
                /\ UNCHANGED <<retry, ret>>
           ELSE /\ gateways' = gateways
                /\ \E failed \in FailedResults(goc.gw) :
                        EnterReapply("cm", failed, script)
    /\ UNCHANGED <<configMaps, deployments, services, gDeployment, passStart,
                   depCreated, svcCreated, depUpdated>>
    /\ UNCHANGED <<cwVars, whVars>>

\* create the gateway deployment and set the status by its outcome
createDeployment ==
    /\ pc = "depCreate"
    /\ LET dep == gatewayDeployment(goc.gw)
       IN  /\ Issue("create", "deployment", dep.Name)
           /\ \E ok \in BOOLEAN :
                /\ ok => dep.Name \notin DOMAIN deployments
                /\ deployments' = IF ok THEN (dep.Name :> dep) @@ deployments
                                  ELSE deployments
                /\ depCreated' = IF ok THEN "ok" ELSE "failed"
                /\ goc' = [goc EXCEPT !.gw.Status = StatusAfterDeployment(ok)]
                /\ pc' = AfterDeployment(ok, goc.gw)
    /\ UNCHANGED <<gateways, configMaps, services, ret, gDeployment, retry,
                   updScript, passStart, svcCreated, depUpdated>>
    /\ UNCHANGED <<cwVars, whVars>>

\* createGatewayService: a failure is logged and dropped
createGatewayService ==
    /\ pc = "svcCreate"
    /\ LET svc == gatewayService(goc.gw)
       IN  /\ Issue("create", "service", svc.Name)
           /\ \E ok \in BOOLEAN :
                /\ ok => svc.Name \notin DOMAIN services
                /\ services' = IF ok THEN (svc.Name :> svc) @@ services
                               ELSE services
                /\ svcCreated' = IF ok THEN "ok" ELSE "failed"
    /\ pc' = "updNew"
    /\ UNCHANGED <<gateways, configMaps, deployments, goc, ret, gDeployment,
                   retry, updScript, passStart, depCreated, depUpdated>>
    /\ UNCHANGED <<cwVars, whVars>>

\* "update state of the gateway": the direct update that ends a branch
DirectUpdate(site) ==
    /\ Issue("update", "gateway", goc.gw.Name)
    /\ \E script \in ScriptsAt(ScriptTails) :
        /\ updScript' = RestScript(script)
        /\ IF NextOutcome(script) = "ok"
           THEN /\ gateways' = [gateways EXCEPT ![goc.gw.Name] = goc.gw]
                /\ goc' = goc
                /\ pc' = "returned" /\ ret' = "nil"
                /\ retry' = retry
           ELSE /\ gateways' = gateways
                /\ \E failed \in FailedResults(goc.gw) :
                        EnterReapply(site, failed, script)

updateNew ==
    /\ pc = "updNew"
    /\ DirectUpdate("new")
    /\ UNCHANGED <<configMaps, deployments, services, gDeployment, passStart,
                   depCreated, svcCreated, depUpdated>>
    /\ UNCHANGED <<cwVars, whVars>>

\* the Error branch: fetch the deployment
getDeployment ==
    /\ pc = "depGet"
    /\ LET name == RepairDeploymentName(goc.gw)
       IN  /\ Issue("get", "deployment", name)
           /\ \E ok \in BOOLEAN :
                /\ ok => name \in DOMAIN deployments
                /\ IF ok
                   THEN /\ gDeployment' = deployments[name]
                        /\ pc' = "depUpdate" /\ ret' = ret
                   ELSE /\ gDeployment' = gDeployment
                        /\ pc' = "returned" /\ ret' = "get deployment failed"
    /\ UNCHANGED <<gateways, configMaps, deployments, services, goc, retry,
                   updScript, passStart, depCreated, svcCreated, depUpdated>>
    /\ UNCHANGED <<cwVars, whVars>>

\* the repaired Gateway is put back to New
StatusAfterRepair_New == NodePhaseNew

\* "Update node phase to running" of the Error branch
StatusAfterRepair == NodePhaseRunning

\* the Error branch: patch the image and write the deployment back
\* (gDeployment keeps the deployment as fetched)
updateDeployment ==
    /\ pc = "depUpdate"
    /\ LET dep == PatchImage(gDeployment, goc.gw.Image)
       IN  /\ Issue("update", "deployment", dep.Name)
           /\ \E ok \in BOOLEAN :
                IF ok
                THEN /\ deployments' = [deployments EXCEPT ![dep.Name] = dep]
                     /\ depUpdated' = "ok"
                     /\ goc' = [goc EXCEPT !.gw.Status = StatusAfterRepair]
                     /\ pc' = "updErr" /\ ret' = ret
                ELSE /\ deployments' = deployments
                     /\ depUpdated' = "failed"
                     /\ goc' = goc
                     /\ pc' = "returned" /\ ret' = "update deployment failed"
    /\ UNCHANGED <<gateways, configMaps, services, gDeployment, retry,
                   updScript, passStart, depCreated, svcCreated>>
    /\ UNCHANGED <<cwVars, whVars>>

updateError ==
    /\ pc = "updErr"
    /\ DirectUpdate("err")
    /\ UNCHANGED <<configMaps, deployments, services, gDeployment, passStart,
                   depCreated, svcCreated, depUpdated>>
    /\ UNCHANGED <<cwVars, whVars>>

(***************************************************************************)
(* reapplyUpdate: wait.ExponentialBackoff(common.DefaultRetry, condition). *)
(***************************************************************************)
\* every failed update taken for a retryable one
ConditionResult_RetryAll(outcome) ==
    IF outcome = "ok" THEN <<TRUE, "nil">> ELSE <<FALSE, "nil">>

\* what the condition function returns after its update: <<done, err>>
ConditionResult(outcome) ==
    IF outcome = "ok" THEN <<TRUE, "nil">>
    ELSE IF ~IsRetryableKubeAPIError(outcome) THEN <<FALSE, outcome>>
    ELSE <<FALSE, "nil">>

\* reapplyUpdate returns e to its call site in operate
ReapplyReturns(e, newGoc, newRetry) ==
    /\ retry' = [newRetry EXCEPT !.ret = e]
    /\ IF e # "nil"
       THEN /\ pc' = "returned" /\ ret' = e /\ goc' = newGoc
       ELSE IF newRetry.site = "cm"
       THEN /\ pc' = "depCreate" /\ ret' = ret
            /\ goc' = [newGoc EXCEPT !.gw = DefaultPullPolicy(newGoc.gw)]
       ELSE /\ pc' = "returned" /\ ret' = "nil" /\ goc' = newGoc

\* g, err := gatewayClient.Get(goc.gw.Name); g.Status = goc.gw.Status
reapplyGet ==
    /\ pc = "rGet"
    /\ IF goc.nil
       THEN \* goc.gw is nil: nil pointer dereference
            /\ pc' = "panicked"
            /\ UNCHANGED <<goc, ret, retry, calls>>
       ELSE /\ Issue("get", "gateway", goc.gw.Name)
            /\ LET r == [retry EXCEPT !.gets = @ + 1]
               IN  IF goc.gw.Name \in DOMAIN gateways
                   THEN /\ retry' = [r EXCEPT !.g =
                                [gateways[goc.gw.Name] EXCEPT !.Status = goc.gw.Status]]
                        /\ pc' = "rUpdate"
                        /\ UNCHANGED <<goc, ret>>
                   ELSE ReapplyReturns("not found", goc, r)
    /\ UNCHANGED <<gateways, configMaps, deployments, services, gDeployment,
                   updScript, passStart, depCreated, svcCreated, depUpdated>>
    /\ UNCHANGED <<cwVars, whVars>>

\* goc.gw, err = gatewayClient.Update(g), and the loop's next step
reapplyUpdate ==
    /\ pc = "rUpdate"
    /\ Issue("update", "gateway", retry.g.Name)
    /\ updScript' = RestScript(updScript)
    /\ LET res == ConditionResult(NextOutcome(updScript))
           r == [retry EXCEPT !.updates = @ + 1, !.i = @ + 1,
                              !.last = NextOutcome(updScript)]
       IN  IF NextOutcome(updScript) = "ok"
           THEN /\ gateways' = [gateways EXCEPT ![retry.g.Name] = retry.g]
                /\ ReapplyReturns(res[2], [gw |-> retry.g, nil |-> FALSE], r)
           ELSE /\ gateways' = gateways
                /\ \E failed \in FailedResults(retry.g) :
                     IF res[2] # "nil" \/ res[1]
                     THEN ReapplyReturns(res[2], failed, r)
                     ELSE IF r.i >= RetrySteps
                     THEN ReapplyReturns("ErrWaitTimeout", failed, r)
                     ELSE /\ goc' = failed
                          /\ retry' = r
                          /\ pc' = "rGet"
                          /\ ret' = ret
    /\ UNCHANGED <<configMaps, deployments, services, gDeployment, passStart,
                   depCreated, svcCreated, depUpdated>>
    /\ UNCHANGED <<cwVars, whVars>>

(***************************************************************************)
(* The configuration watcher of the gateway transformer (package           *)
(* transform): WatchGatewayTransformerConfigMap and updateConfig.          *)
(***************************************************************************)
\* t.Config before the first snapshot
NilConfig ==
    [set |-> FALSE, EventType |-> "", EventTypeVersion |-> "", Sensors |-> <<>>,
     EventSource |-> ""]

RequiredKeys == {EventType, EventTypeVersion, SensorList, EventSource}

NoData == [k \in {} |-> ""]

\* the data a configmap of the watched name can carry
SensorStrings == {Join(l, Comma) : l \in SensorLists}

\* all four keys, all but one, or none
KeySets == {RequiredKeys, {}} \union {RequiredKeys \ {k} : k \in RequiredKeys}

UserData ==
    {[k \in keys |-> full[k]] :
        keys \in KeySets,
        full \in {(EventType :> "webhook") @@ (EventTypeVersion :> "v2") @@
                  (SensorList :> str) @@ (EventSource :> "other-gw") :
                        str \in SensorStrings}}

\* updateConfig with the zero value for a missing event source
updateConfig_NoSourceCheck(data, config) ==
    IF EventType \notin DOMAIN data THEN <<config, "does not have key eventType">>
    ELSE IF EventTypeVersion \notin DOMAIN data
    THEN <<config, "does not have key eventTypeVersion">>
    ELSE IF SensorList \notin DOMAIN data
    THEN <<config, "does not have key sensors">>
    ELSE <<[set |-> TRUE,
            EventType |-> data[EventType],
            EventTypeVersion |-> data[EventTypeVersion],
            Sensors |-> Split(data[SensorList], Comma),
            EventSource |-> IF EventSource \in DOMAIN data THEN data[EventSource]
                            ELSE ""],
           "nil">>

\* updateConfig(cm): <<t.Config afterwards, the error returned>>
updateConfig(data, config) ==
    IF EventType \notin DOMAIN data THEN <<config, "does not have key eventType">>
    ELSE IF EventTypeVersion \notin DOMAIN data
    THEN <<config, "does not have key eventTypeVersion">>
    ELSE IF SensorList \notin DOMAIN data
    THEN <<config, "does not have key sensors">>
    ELSE IF EventSource \notin DOMAIN data
    THEN <<config, "does not have key source">>
    ELSE <<[set |-> TRUE,
            EventType |-> data[EventType],
            EventTypeVersion |-> data[EventTypeVersion],
            Sensors |-> Split(data[SensorList], Comma),
            EventSource |-> data[EventSource]],
           "nil">>

\* the configmap the transformer of the Gateway watches
WatchedName == DefaultGatewayTransformerConfigMapName(GatewayName)

\* a notification carrying a configmap reaches updateConfig
Notify(data, writer) ==
    /\ tConfig' = updateConfig(data, tConfig)[1]
    /\ cwErr' = updateConfig(data, tConfig)[2]
    /\ lastHadAll' = (RequiredKeys \subseteq DOMAIN data)
    /\ IF RequiredKeys \subseteq DOMAIN data
       THEN lastComplete' = data /\ completeWriter' = writer
       ELSE UNCHANGED <<lastComplete, completeWriter>>

\* AddFunc: the informer reports the watched configmap as it is stored; an
\* object that is no configmap is skipped
AddFunc ==
    /\ WatchedName \in DOMAIN configMaps
    /\ \E isConfigMap \in BOOLEAN :
        IF isConfigMap
        THEN Notify(configMaps[WatchedName].Data, configMaps[WatchedName].Writer)
        ELSE UNCHANGED cwVars
    /\ UNCHANGED gwVars
    /\ UNCHANGED whVars

\* UpdateFunc: the watched configmap was changed and the informer reports the
\* new object
UpdateFunc ==
    /\ WatchedName \in DOMAIN configMaps
    /\ \E data \in UserData, isConfigMap \in BOOLEAN :
        /\ configMaps' = [configMaps EXCEPT ![WatchedName].Data = data,
                                            ![WatchedName].Writer = "user"]
        /\ IF isConfigMap THEN Notify(data, "user") ELSE UNCHANGED cwVars
    /\ UNCHANGED <<gateways, deployments, services, goc, pc, ret, gDeployment,
                   retry, updScript, calls, passStart, depCreated, svcCreated,
                   depUpdated>>
    /\ UNCHANGED whVars

(***************************************************************************)
(* The webhook gateway: webhook.RunConfiguration, the goroutine that waits *)
(* for the stop signal, and the handler closure RunConfiguration installs. *)
(***************************************************************************)
Configs == {"c1", "c2", "c3"}

Endpoints == {"/a", "/b"}
Methods == {"GET", "POST"}
Bodies == {"b1", "b2"}

\* config.Config does not parse
BadHook == [Valid |-> FALSE, Endpoint |-> "", Method |-> "", Port |-> ""]

Hook(e, m, p) == [Valid |-> TRUE, Endpoint |-> e, Method |-> m, Port |-> p]

NoRoutes == [e \in {} |-> {}]
NoHandlers == [e \in {} |-> ""]

NoRequest ==
    [pc |-> "none", path |-> "", method |-> "", body |-> "", readOk |-> TRUE,
     src |-> "", activeAtCheck |-> FALSE, acks |-> <<>>, dispatched |-> <<>>]

\* the methods active on an endpoint
Active(e) == IF e \in DOMAIN activeRoutes THEN activeRoutes[e] ELSE {}

\* A read of a map that is not under mut races with the writes under it: the
\* Go runtime may end the process ("concurrent map read and map write")
\* when a write of the same map is under way.
OuterWritePoised == mut = "free" /\ \E c \in Configs : wpc[c] = "lockNew"

InnerWritePoised(e) ==
    \/ \E c \in Configs : wpc[c] = "insNew" /\ hook[c].Endpoint = e
    \/ /\ mut = "free"
       /\ \E c \in Configs :
            /\ hook[c].Endpoint = e
            /\ \/ wpc[c] = "lockAdd"
               \/ cleaner[c] = "waiting" /\ stopCh[c]

Crash ==
    /\ crashed' = TRUE
    /\ UNCHANGED <<hook, wpc, cleaner, stopCh, hasServerStarted, activeRoutes,
                   mut, listeners, handlers, req>>

\* h.Port != "" && !hasServerStarted.Load()
WantsServer(h, started) == h.Port # "" /\ ~started

\* yaml.Unmarshal, then the load of hasServerStarted
rcParse(c) ==
    /\ ~crashed
    /\ wpc[c] = "idle"
    /\ wpc' = [wpc EXCEPT ![c] =
                IF ~hook[c].Valid THEN "returnedErr"
                ELSE IF WantsServer(hook[c], hasServerStarted) THEN "store"
                ELSE "spawn"]
    /\ UNCHANGED <<hook, cleaner, stopCh, hasServerStarted, activeRoutes, mut,
                   listeners, handlers, crashed, req>>
    /\ UNCHANGED <<gwVars, cwVars>>

\* w.log.Fatal().Err(http.ListenAndServe(...)): a port that is already bound
\* makes ListenAndServe return and Fatal ends the process
PortTaken(started, port) == \E i \in 1..Len(started) : started[i] = port

\* hasServerStarted.Store(true); go http.ListenAndServe(":" + h.Port, nil)
rcStartServer(c) ==
    /\ ~crashed
    /\ wpc[c] = "store"
    /\ hasServerStarted' = TRUE
    /\ listeners' = Append(listeners, hook[c].Port)
    /\ wpc' = [wpc EXCEPT ![c] = "spawn"]
    /\ crashed' = PortTaken(listeners, hook[c].Port)
    /\ UNCHANGED <<hook, cleaner, stopCh, activeRoutes, mut, handlers, req>>
    /\ UNCHANGED <<gwVars, cwVars>>

\* _, ok := activeRoutes[h.Endpoint], read outside mut
EndpointKnown(routes, e) == e \in DOMAIN routes

\* the goroutine waiting for the stop signal is started; then
\* h.Endpoint != "" && h.Method != "" and the look-up of the endpoint
rcCheck(c) ==
    /\ ~crashed
    /\ wpc[c] = "spawn"
    /\ \/ /\ cleaner' = [cleaner EXCEPT ![c] = "waiting"]
          /\ wpc' = [wpc EXCEPT ![c] =
                IF hook[c].Endpoint = "" \/ hook[c].Method = "" THEN "returned"
                ELSE IF EndpointKnown(activeRoutes, hook[c].Endpoint) THEN "lockAdd"
                ELSE "lockNew"]
          /\ UNCHANGED <<hook, stopCh, hasServerStarted, activeRoutes, mut,
                         listeners, handlers, crashed, req>>
       \/ /\ hook[c].Endpoint # "" /\ hook[c].Method # ""
          /\ OuterWritePoised
          /\ Crash
    /\ UNCHANGED <<gwVars, cwVars>>

\* mut.Lock(); activeRoutes[h.Endpoint] = make(map[string]struct{})
rcLockNew(c) ==
    /\ ~crashed
    /\ wpc[c] = "lockNew"
    /\ mut = "free"
    /\ mut' = c
    /\ activeRoutes' = (hook[c].Endpoint :> {}) @@ activeRoutes
    /\ wpc' = [wpc EXCEPT ![c] = "insNew"]
    /\ UNCHANGED <<hook, cleaner, stopCh, hasServerStarted, listeners, handlers,
                   crashed, req>>
    /\ UNCHANGED <<gwVars, cwVars>>

\* activeRoutes[h.Endpoint][h.Method] = struct{}{}
Insert(routes, e, m) == [routes EXCEPT ![e] = @ \union {m}]

\* activeRoutes[h.Endpoint][h.Method] = struct{}{}; mut.Unlock()
rcInsNew(c) ==
    /\ ~crashed
    /\ wpc[c] = "insNew"
    /\ mut = c
    /\ activeRoutes' = Insert(activeRoutes, hook[c].Endpoint, hook[c].Method)
    /\ mut' = "free"
    /\ wpc' = [wpc EXCEPT ![c] = "handle"]
    /\ UNCHANGED <<hook, cleaner, stopCh, hasServerStarted, listeners, handlers,
                   crashed, req>>
    /\ UNCHANGED <<gwVars, cwVars>>

\* http.HandleFunc(h.Endpoint, ...): a second registration of a path panics
rcHandle(c) ==
    /\ ~crashed
    /\ wpc[c] = "handle"
    /\ IF hook[c].Endpoint \in DOMAIN handlers
       THEN /\ crashed' = TRUE
            /\ wpc' = [wpc EXCEPT ![c] = "panicked"]
            /\ handlers' = handlers
       ELSE /\ crashed' = crashed
            /\ wpc' = [wpc EXCEPT ![c] = "wait"]
            /\ handlers' = (hook[c].Endpoint :> c) @@ handlers
    /\ UNCHANGED <<hook, cleaner, stopCh, hasServerStarted, activeRoutes, mut,
                   listeners, req>>
    /\ UNCHANGED <<gwVars, cwVars>>

\* the else branch: mut.Lock(); insert; mut.Unlock()
rcLockAdd(c) ==
    /\ ~crashed
    /\ wpc[c] = "lockAdd"
    /\ mut = "free"
    /\ activeRoutes' = Insert(activeRoutes, hook[c].Endpoint, hook[c].Method)
    /\ wpc' = [wpc EXCEPT ![c] = "wait"]
    /\ UNCHANGED <<hook, cleaner, stopCh, hasServerStarted, mut, listeners,
                   handlers, crashed, req>>
    /\ UNCHANGED <<gwVars, cwVars>>

\* wg.Wait(); return nil
rcWait(c) ==
    /\ ~crashed
    /\ wpc[c] = "wait"
    /\ cleaner[c] = "done"
    /\ wpc' = [wpc EXCEPT ![c] = "returned"]
    /\ UNCHANGED <<hook, cleaner, stopCh, hasServerStarted, activeRoutes, mut,
                   listeners, handlers, crashed, req>>
    /\ UNCHANGED <<gwVars, cwVars>>

\* the owner of the configuration closes config.StopCh
Stop(c) ==
    /\ ~crashed
    /\ wpc[c] # "idle"
    /\ ~stopCh[c]
    /\ stopCh' = [stopCh EXCEPT ![c] = TRUE]
    /\ UNCHANGED <<hook, wpc, cleaner, hasServerStarted, activeRoutes, mut,
                   listeners, handlers, crashed, req>>
    /\ UNCHANGED <<gwVars, cwVars>>

\* the stop removes the endpoint's whole method set
Delete_WholeEndpoint(routes, e, m) ==
    IF e \in DOMAIN routes THEN [routes EXCEPT ![e] = {}] ELSE routes

\* activeHTTPMethods := activeRoutes[h.Endpoint]; delete(activeHTTPMethods, h.Method)
Delete(routes, e, m) ==
    IF e \in DOMAIN routes THEN [routes EXCEPT ![e] = @ \ {m}] ELSE routes

\* <-config.StopCh; mut.Lock(); delete; mut.Unlock(); wg.Done()
cleanup(c) ==
    /\ ~crashed
    /\ cleaner[c] = "waiting"
    /\ stopCh[c]
    /\ mut = "free"
    /\ activeRoutes' = Delete(activeRoutes, hook[c].Endpoint, hook[c].Method)
    /\ cleaner' = [cleaner EXCEPT ![c] = "done"]
    /\ UNCHANGED <<hook, wpc, stopCh, hasServerStarted, mut, listeners, handlers,
                   crashed, req>>
    /\ UNCHANGED <<gwVars, cwVars>>

(***************************************************************************)
(* The handler closure, serving one request.                               *)
(***************************************************************************)
\* the server hands a request for a registered path to the path's handler
reqArrive ==
    /\ ~crashed
    /\ req.pc \in {"none", "done"}
    /\ listeners # <<>>
    /\ \E e \in DOMAIN handlers, m \in Methods, b \in Bodies :
        req' = [NoRequest EXCEPT !.pc = "endpoint", !.path = e, !.method = m,
                                 !.body = b, !.src = handlers[e]]
    /\ UNCHANGED <<hook, wpc, cleaner, stopCh, hasServerStarted, activeRoutes,
                   mut, listeners, handlers, crashed>>
    /\ UNCHANGED <<gwVars, cwVars>>

Ack(r, kind) == [r EXCEPT !.pc = "done", !.acks = Append(@, kind)]

\* if _, ok := activeRoutes[h.Endpoint]; ok
reqCheckEndpoint ==
    /\ ~crashed
    /\ req.pc = "endpoint"
    /\ \/ /\ req' = IF EndpointKnown(activeRoutes, hook[req.src].Endpoint)
                    THEN [req EXCEPT !.pc = "method"]
                    ELSE Ack(req, "error")
          /\ UNCHANGED <<hook, wpc, cleaner, stopCh, hasServerStarted,
                         activeRoutes, mut, listeners, handlers, crashed>>
       \/ OuterWritePoised /\ Crash
    /\ UNCHANGED <<gwVars, cwVars>>

\* the method the handler looks up is the one the request came with
IsActive_HookMethod(routes, h, method) == h.Method \in routes[h.Endpoint]

\* _, isActive := activeRoutes[h.Endpoint][request.Method]
IsActive(routes, h, method) == method \in routes[h.Endpoint]

reqCheckMethod ==
    /\ ~crashed
    /\ req.pc = "method"
    /\ \/ /\ LET r == [req EXCEPT !.activeAtCheck = req.method \in Active(req.path)]
             IN  req' = IF IsActive(activeRoutes, hook[req.src], req.method)
                        THEN [r EXCEPT !.pc = "read"]
                        ELSE Ack(r, "error")
          /\ UNCHANGED <<hook, wpc, cleaner, stopCh, hasServerStarted,
                         activeRoutes, mut, listeners, handlers, crashed>>
       \/ (OuterWritePoised \/ InnerWritePoised(hook[req.src].Endpoint)) /\ Crash
    /\ UNCHANGED <<gwVars, cwVars>>

\* body, err := ioutil.ReadAll(request.Body), then the response
Respond(r) ==
    IF r.readOk
    THEN [r EXCEPT !.pc = "dispatch", !.acks = Append(@, "success")]
    ELSE Ack(r, "error")

reqRespond ==
    /\ ~crashed
    /\ req.pc = "read"
    /\ \E ok \in BOOLEAN : req' = Respond([req EXCEPT !.readOk = ok])
    /\ UNCHANGED <<hook, wpc, cleaner, stopCh, hasServerStarted, activeRoutes,
                   mut, listeners, handlers, crashed>>
    /\ UNCHANGED <<gwVars, cwVars>>

\* w.gatewayConfig.DispatchEvent(body, config.Src)
Dispatch(r) ==
    [r EXCEPT !.pc = "done", !.dispatched = Append(@, <<r.body, r.src>>)]

reqDispatch ==
    /\ ~crashed
    /\ req.pc = "dispatch"
    /\ req' = Dispatch(req)
    /\ UNCHANGED <<hook, wpc, cleaner, stopCh, hasServerStarted, activeRoutes,
                   mut, listeners, handlers, crashed>>
    /\ UNCHANGED <<gwVars, cwVars>>

(***************************************************************************)
(* Specifications: one for each of the three parts.                        *)
(***************************************************************************)
GatewayIdle ==
    /\ configMaps = NoResources
    /\ services = NoResources
    /\ goc = [gw |-> ZeroGateway, nil |-> FALSE]
    /\ pc = "idle"
    /\ ret = ""
    /\ gDeployment = NoResources
    /\ retry = NoRetry
    /\ updScript = <<>>
    /\ calls = <<>>
    /\ passStart = ZeroGateway
    /\ depCreated = "none"
    /\ svcCreated = "none"
    /\ depUpdated = "none"

WatcherIdle ==
    /\ tConfig = NilConfig
    /\ cwErr = ""
    /\ lastHadAll = TRUE
    /\ lastComplete = NoData
    /\ completeWriter = "none"

WebhookIdle ==
    /\ wpc = [c \in Configs |-> "idle"]
    /\ cleaner = [c \in Configs |-> "none"]
    /\ stopCh = [c \in Configs |-> FALSE]
    /\ hasServerStarted = FALSE
    /\ activeRoutes = NoRoutes
    /\ mut = "free"
    /\ listeners = <<>>
    /\ handlers = NoHandlers
    /\ crashed = FALSE
    /\ req = NoRequest

\* the reconcile engine: passes on one Gateway, one after the other
InitGateway ==
    /\ gateways \in [{GatewayName} -> Gateways]
    /\ deployments \in {NoResources} \union
            {(d.Name :> d) : d \in ForeignDeployments}
    /\ GatewayIdle
    /\ WatcherIdle
    /\ hook = [c \in Configs |-> BadHook]
    /\ WebhookIdle

NextGateway ==
    \/ operate_begin
    \/ createConfigMap
    \/ updateMarkFailed
    \/ createDeployment
    \/ createGatewayService
    \/ updateNew
    \/ getDeployment
    \/ updateDeployment
    \/ updateError
    \/ reapplyGet
    \/ reapplyUpdate

SpecGateway == InitGateway /\ [][NextGateway]_vars

\* the Gateways of the watcher's runs: valid, new, with every consumer list
WatchedGateways ==
    {g \in GatewaysWith(SensorLists) :
        /\ validate(g) = "nil" /\ g.Status = NodePhaseNew
        /\ g.DispatchMechanism = NATSGateway
        /\ g.ImagePullPolicy = "" /\ g.ServicePort = 0}

InitWatcher ==
    /\ gateways \in [{GatewayName} -> WatchedGateways]
    /\ deployments = NoResources
    /\ GatewayIdle
    /\ WatcherIdle
    /\ hook = [c \in Configs |-> BadHook]
    /\ WebhookIdle

\* The engine writes the configmap in the first call of its New branch and in
\* no other call; the watcher's runs follow one pass up to that call.
NextWatcher ==
    \/ (pc = "idle" /\ operate_begin)
    \/ createConfigMap
    \/ AddFunc
    \/ UpdateFunc

SpecWatcher == InitWatcher /\ [][NextWatcher]_vars

\* the configurations of the webhook's runs
WebhookHooks ==
    {h \in [Configs -> {BadHook} \union
                {Hook(e, m, p) : e \in Endpoints \union {""}, m \in Methods,
                                 p \in {"", "8080", "9090"}}] :
        /\ h["c1"] = Hook("/a", "GET", "8080")
        /\ h["c2"].Valid /\ h["c2"].Endpoint # "" /\ h["c2"].Port = ""
        /\ h["c3"] \in {BadHook, Hook("", "POST", "8080"), Hook("", "POST", "9090")}}

InitWebhook ==
    /\ gateways = [n \in {GatewayName} |-> ZeroGateway]
    /\ deployments = NoResources
    /\ GatewayIdle
    /\ WatcherIdle
    /\ hook \in WebhookHooks
    /\ WebhookIdle

NextWebhook ==
    \/ \E c \in Configs : rcParse(c)
    \/ \E c \in Configs : rcStartServer(c)
    \/ \E c \in Configs : rcCheck(c)
    \/ \E c \in Configs : rcLockNew(c)
    \/ \E c \in Configs : rcInsNew(c)
    \/ \E c \in Configs : rcHandle(c)
    \/ \E c \in Configs : rcLockAdd(c)
    \/ \E c \in Configs : rcWait(c)
    \/ \E c \in Configs : Stop(c)
    \/ \E c \in Configs : cleanup(c)
    \/ reqArrive
    \/ reqCheckEndpoint
    \/ reqCheckMethod
    \/ reqRespond
    \/ reqDispatch

SpecWebhook == InitWebhook /\ [][NextWebhook]_vars

(***************************************************************************)
(* Properties of the reconcile engine.                                     *)
(***************************************************************************)
Persisted == gateways[GatewayName].Status

CallsOf(op, kind) == {i \in 1..Len(calls) : calls[i][1] = op /\ calls[i][2] = kind}

\* a pass on a valid Gateway with status New has returned
NewPassReturned ==
    /\ pc = "returned"
    /\ passStart.Status = NodePhaseNew
    /\ depCreated # "none"

\* C1 as claimed: after a New pass whose deployment create succeeded the
\* persisted status is Running; with a non-zero service port the service
\* exists, with a zero port no service create was issued.
C1_Original ==
    (NewPassReturned /\ depCreated = "ok") =>
        /\ Persisted = NodePhaseRunning
        /\ passStart.ServicePort # 0 =>
                DefaultGatewayServiceName(GatewayName) \in DOMAIN services
        /\ passStart.ServicePort = 0 => CallsOf("create", "service") = {}

\* C1: after a New pass whose deployment create succeeded and that returned
\* nil, the persisted status is Running; with a non-zero service port exactly
\* one service create was issued, and the service exists unless that create
\* failed; with a zero port no service create was issued.
C1_RunningAfterDeployment ==
    (NewPassReturned /\ depCreated = "ok") =>
        /\ ret = "nil" => Persisted = NodePhaseRunning
        /\ passStart.ServicePort # 0 =>
                /\ Cardinality(CallsOf("create", "service")) = 1
                /\ svcCreated = "ok" =>
                        DefaultGatewayServiceName(GatewayName) \in DOMAIN services
        /\ passStart.ServicePort = 0 => CallsOf("create", "service") = {}

C1_Witness ==
    /\ NewPassReturned /\ depCreated = "ok" /\ ret = "nil"
    /\ passStart.ServicePort # 0
    /\ Persisted = NodePhaseRunning
    /\ DefaultGatewayServiceName(GatewayName) \in DOMAIN services

\* C2 as claimed: after a New pass whose deployment create failed the
\* persisted status is Error and the pass issued no service create.
C2_Original ==
    (NewPassReturned /\ depCreated = "failed") =>
        /\ Persisted = NodePhaseError
        /\ CallsOf("create", "service") = {}

\* C2: after a New pass whose deployment create failed the pass issued no
\* service create, whatever the service port, and when the pass returned nil
\* the persisted status is Error.
C2_ErrorAfterFailedDeployment ==
    (NewPassReturned /\ depCreated = "failed") =>
        /\ ret = "nil" => Persisted = NodePhaseError
        /\ CallsOf("create", "service") = {}

C2_Witness ==
    /\ NewPassReturned /\ depCreated = "failed" /\ ret = "nil"
    /\ passStart.ServicePort # 0
    /\ Persisted = NodePhaseError

\* the reasons validation fails for, each with its error
C3_Reasons(gw) ==
    {r \in {<<~gw.DeploySpec, "gateway deploy specification is not specified">>,
            <<gw.Type = "", "gateway type is not specified">>,
            <<gw.Version = "", "gateway version is not specified">>,
            <<gw.DispatchMechanism = HTTPGateway /\ gw.Watchers \in {"nil", "empty"},
              "no associated watchers with gateway">>} : r[1]}

\* C3: a pass on a Gateway that fails validation for one of the four reasons
\* returns the error of a reason that holds, issues no call to the API server
\* and leaves the configmaps, deployments, services and Gateways as they
\* were, whatever the Gateway's status.
C3_ValidationNoSideEffects ==
    [][(pc \in {"idle", "returned"} /\ C3_Reasons(gateways[GatewayName]) # {}) =>
            /\ pc' = "returned"
            /\ ret' \in {r[2] : r \in C3_Reasons(gateways[GatewayName])}
            /\ calls' = <<>>
            /\ UNCHANGED <<gateways, configMaps, deployments, services>>]_vars

C3_Witness ==
    /\ pc = "returned"
    /\ passStart.Status = NodePhaseNew
    /\ C3_Reasons(passStart) = {<<TRUE, "gateway version is not specified">>}
    /\ ret = "gateway version is not specified"
    /\ calls = <<>>

\* the deployment the repair wrote is the fetched one but for the image of
\* its first container
C4_OnlyImagePatched ==
    LET old == gDeployment
        new == deployments[old.Name]
    IN  /\ new.Name = old.Name
        /\ new.Owner = old.Owner
        /\ new.ServiceAccountName = old.ServiceAccountName
        /\ Len(new.Containers) = Len(old.Containers)
        /\ new.Containers[1].Image = passStart.Image
        /\ new.Containers[1].Name = old.Containers[1].Name
        /\ new.Containers[1].ImagePullPolicy = old.Containers[1].ImagePullPolicy
        /\ new.Containers[1].Env = old.Containers[1].Env
        /\ \A i \in 2..Len(old.Containers) : new.Containers[i] = old.Containers[i]

\* C4 as claimed: the Error pass writes the fetched deployment back with only
\* the image of the first container changed, and once the deployment update
\* succeeded the status the pass leaves persisted is Running.
C4_Original ==
    (passStart.Status = NodePhaseError /\ depUpdated = "ok") =>
        /\ C4_OnlyImagePatched
        /\ pc = "returned" => Persisted = NodePhaseRunning

\* C4: the Error pass writes the fetched deployment back with only the image
\* of the first container changed, and once the deployment update succeeded
\* and the pass returned nil the persisted status is Running.
C4_RepairPatchesImage ==
    (passStart.Status = NodePhaseError /\ depUpdated = "ok") =>
        /\ C4_OnlyImagePatched
        /\ (pc = "returned" /\ ret = "nil") => Persisted = NodePhaseRunning

C4_Witness ==
    /\ passStart.Status = NodePhaseError /\ depUpdated = "ok"
    /\ pc = "returned" /\ ret = "nil"
    /\ Len(gDeployment.Containers) = 2
    /\ gDeployment.Containers[1].Image # passStart.Image
    /\ Persisted = NodePhaseRunning

\* reapplyUpdate has ended: it returned, or it panicked
ReapplyEnded == retry.ret # "" \/ (pc = "panicked" /\ retry.site # "none")

\* C5 as claimed: when the server answers the updates of reapplyUpdate with N
\* retryable errors and then accepts, reapplyUpdate makes exactly N+1 update
\* attempts and returns success.
C5_Original ==
    \A n \in 0..MaxConflicts :
        (ReapplyEnded /\ retry.entry = Retryable(n) \o <<"ok">>) =>
            /\ retry.updates = n + 1
            /\ retry.ret = "nil"

\* C6: once an update of reapplyUpdate failed with an error that is not
\* retryable, that update is the last call of the pass, and reapplyUpdate and
\* operate have returned that error.
C6_FatalErrorStops ==
    (retry.last # "" /\ retry.last # "ok" /\ ~IsRetryableKubeAPIError(retry.last)) =>
        /\ pc = "returned"
        /\ ret = retry.last
        /\ retry.ret = retry.last
        /\ calls[Len(calls)] = <<"update", "gateway", GatewayName>>

C6_Witness ==
    /\ retry.last = "invalid"
    /\ retry.updates = 3
    /\ pc = "returned" /\ ret = "invalid"

(***************************************************************************)
(* Properties of the Config Watcher                                        *)
(***************************************************************************)
\* the snapshot updateConfig builds from a payload with all four keys
SnapshotOf(data) ==
    [set |-> TRUE,
     EventType |-> data["eventType"],
     EventTypeVersion |-> data["eventTypeVersion"],
     Sensors |-> Split(data["sensors"], ","),
     EventSource |-> data["source"]]

\* C7: a notification whose payload lacks one of the four required keys
\* leaves the published snapshot as it was and makes updateConfig return an
\* error, so the published snapshot is always the one built from the latest
\* payload that had all four keys (none published before the first of them).
C7_SnapshotFromLatestComplete ==
    /\ tConfig = IF lastComplete = NoData THEN NilConfig
                 ELSE SnapshotOf(lastComplete)
    /\ ~lastHadAll => cwErr \notin {"", "nil"}
    /\ (lastHadAll /\ lastComplete # NoData) => cwErr = "nil"

\* an incomplete payload arrived after a snapshot was published
C7_Witness ==
    /\ ~lastHadAll
    /\ cwErr = "does not have key source"
    /\ tConfig.set
    /\ configMaps[WatchedName].Data # lastComplete

\* C8 as stated: the consumer list published from the payload the engine
\* wrote equals the Gateway's consumer list, the empty list included.
C8_Original ==
    (completeWriter = "engine" /\ tConfig.set)
        => tConfig.Sensors = gateways[GatewayName].Sensors

(***************************************************************************)
(* Properties of the webhook gateway                                       *)
(***************************************************************************)
\* the endpoints other than e keep their active methods in the step
OthersKept(e) ==
    \A o \in (DOMAIN activeRoutes \union DOMAIN activeRoutes') \ {e} :
        /\ o \in DOMAIN activeRoutes /\ o \in DOMAIN activeRoutes'
        /\ activeRoutes'[o] = activeRoutes[o]

\* C9: a registration that starts when its endpoint already has an active
\* method adds its method and keeps the ones there, so both are active; the
\* stop of a registered configuration removes that configuration's method
\* from its endpoint, keeps the endpoint's other methods and leaves every
\* other endpoint's method set as it was.
C9_RegisterAndStop ==
    [][\A c \in Configs :
        LET e == hook[c].Endpoint
            m == hook[c].Method
        IN  /\ (/\ wpc[c] = "spawn" /\ wpc'[c] # "spawn"
                /\ e # "" /\ m # "" /\ Active(e) # {})
                    => wpc'[c] = "lockAdd"
            /\ (wpc[c] = "lockAdd" /\ wpc'[c] = "wait")
                    => /\ e \in DOMAIN activeRoutes'
                       /\ activeRoutes'[e] = Active(e) \union {m}
                       /\ OthersKept(e)
            /\ (cleaner[c] = "waiting" /\ cleaner'[c] = "done" /\ m \in Active(e))
                    => /\ m \notin activeRoutes'[e]
                       /\ \A o \in Active(e) \ {m} : o \in activeRoutes'[e]
                       /\ OthersKept(e)]_vars

\* c1 registered GET or POST on /a, c2 the other method on /a afterwards,
\* c1 was stopped and c2 is still running
C9_Witness ==
    /\ ~crashed
    /\ hook["c1"].Endpoint = hook["c2"].Endpoint
    /\ hook["c1"].Method # hook["c2"].Method
    /\ handlers = (hook["c1"].Endpoint :> "c1")
    /\ wpc["c1"] = "returned" /\ cleaner["c1"] = "done"
    /\ wpc["c2"] = "wait" /\ ~stopCh["c2"]
    /\ activeRoutes = (hook["c1"].Endpoint :> {hook["c2"].Method})

\* what a finished request must have got
C10_Outcome ==
    /\ Len(req.acks) <= 1
    /\ Len(req.dispatched) <= 1
    /\ req.dispatched # <<>> => req.acks = <<"success">>
    /\ req.pc = "done" =>
        IF req.activeAtCheck /\ req.readOk
        THEN /\ req.acks = <<"success">>
             /\ Len(req.dispatched) = 1
             /\ req.dispatched[1][1] = req.body
        ELSE /\ req.acks = <<"error">>
             /\ req.dispatched = <<>>

\* C10: a request gets exactly one acknowledgment: success, followed by one
\* dispatch of the body as it came, when its method was active on the
\* endpoint at the check and the body could be read; otherwise the error
\* acknowledgment and no dispatch.  Handling a request leaves the route
\* table and the installed handlers as they were.
C10_OneAcknowledgment ==
    /\ []C10_Outcome
    /\ [][(req' # req /\ req.pc \notin {"none", "done"})
            => (activeRoutes' = activeRoutes /\ handlers' = handlers)]_vars

\* a request was answered with success and dispatched after its method had
\* been deactivated again
C10_Witness ==
    /\ req.pc = "done"
    /\ req.acks = <<"success">>
    /\ req.dispatched = <<<<"b2", "c1">>>>
    /\ req.method \notin Active(req.path)

(***************************************************************************)
(* Further properties of the reconcile engine                              *)
(***************************************************************************)
\* C12: in a pass that began with status New the store shows Running only
\* once the deployment create call of that pass has returned.
C12_RunningFollowsDeployment ==
    (passStart.Status = NodePhaseNew /\ Persisted = NodePhaseRunning)
        => depCreated # "none"

\* the pass persisted Error after the failed configmap create, created the
\* deployment and then persisted Running
C12_Witness ==
    /\ passStart.Status = NodePhaseNew
    /\ Persisted = NodePhaseRunning
    /\ depCreated = "ok"
    /\ Cardinality(CallsOf("create", "deployment")) = 1
    /\ \E i \in CallsOf("update", "gateway") :
            i < CHOOSE j \in CallsOf("create", "deployment") : TRUE

\* C13: every change of the persisted status is New->Running, New->Error or
\* Error->Running; no value outside New, Running, Error is written and the
\* status of a Gateway that is persisted as Running is not changed.
C13_StatusTransitions ==
    [][/\ gateways' # gateways =>
            gateways'[GatewayName].Status \in
                {NodePhaseNew, NodePhaseRunning, NodePhaseError}
       /\ gateways'[GatewayName].Status # gateways[GatewayName].Status =>
            <<gateways[GatewayName].Status, gateways'[GatewayName].Status>> \in
                {<<NodePhaseNew, NodePhaseRunning>>,
                 <<NodePhaseNew, NodePhaseError>>,
                 <<NodePhaseError, NodePhaseRunning>>}]_vars

\* a repair pass persisted Running over Error through reapplyUpdate
C13_Witness ==
    /\ passStart.Status = NodePhaseError
    /\ Persisted = NodePhaseRunning
    /\ retry.site = "err" /\ retry.ret = "nil"
    /\ pc = "returned"

\* C18 as stated: a pass changes the persisted status at most once, that is,
\* every change it makes starts from the status the pass began with.
C18_Original ==
    [][gateways'[GatewayName].Status # gateways[GatewayName].Status =>
            gateways[GatewayName].Status = passStart.Status]_vars

\* C19 as stated: every attempt of reapplyUpdate fetches the Gateway under
\* the name the pass reconciles, carrying the status the pass decided.
C19_Original ==
    pc = "rGet" =>
        /\ ~goc.nil
        /\ goc.gw.Name = passStart.Name
        /\ goc.gw.Status \in {NodePhaseRunning, NodePhaseError}

\* C20 as stated, its part on the deployment: once a New pass has created the
\* Gateway's deployment, the deployment an Error pass asks for is that one.
C20_Original ==
    (/\ passStart.Status = NodePhaseError
     /\ DefaultGatewayDeploymentName(GatewayName) \in DOMAIN deployments)
        => \A i \in CallsOf("get", "deployment") :
                calls[i][3] = DefaultGatewayDeploymentName(GatewayName)

(***************************************************************************)
(* Further properties of the webhook gateway                               *)
(***************************************************************************)
\* C11 as stated: under every interleaving of RunConfiguration calls whose
\* configurations carry a port, the listener is started at most once.
C11_Original == Len(listeners) <= 1

\* the configurations that registered the pair (e, m)
Registrants(e, m) ==
    {c \in Configs : hook[c].Valid /\ hook[c].Endpoint = e /\ hook[c].Method = m}

\* the configuration has inserted its method and released mut
Inserted(c) == wpc[c] \in {"handle", "wait"}

\* C14 as stated: once two registrations of different methods on the same
\* endpoint have both inserted their method, and neither is stopped, both
\* methods are active on the endpoint.
C14_Original ==
    \A c \in Configs, d \in Configs :
        (/\ ~crashed
         /\ c # d
         /\ hook[c].Endpoint = hook[d].Endpoint
         /\ hook[c].Method # hook[d].Method
         /\ Inserted(c) /\ Inserted(d)
         /\ ~stopCh[c] /\ ~stopCh[d])
            => {hook[c].Method, hook[d].Method} \subseteq Active(hook[c].Endpoint)

\* the configurations that have called http.HandleFunc for the path e
HandleFuncCallers(e) ==
    {c \in Configs :
        /\ hook[c].Endpoint = e
        /\ \/ e \in DOMAIN handlers /\ handlers[e] = c
           \/ wpc[c] = "panicked"}

\* C15 as stated: http.HandleFunc is called at most once for each path.
C15_Original ==
    \A e \in Endpoints : Cardinality(HandleFuncCallers(e)) <= 1

\* C16 as stated: a request is dispatched with the source identifier of a
\* configuration that registered the request's endpoint and method.
C16_Original ==
    req.dispatched # <<>> =>
        req.dispatched[1][2] \in Registrants(req.path, req.method)

\* C17 as stated, its part on the route table: once a configuration's stop
\* signal has fired and its RunConfiguration has returned, its method is not
\* active on its endpoint, no other configuration having registered the pair.
C17_Original ==
    \A c \in Configs :
        (/\ ~crashed
         /\ stopCh[c]
         /\ wpc[c] = "returned"
         /\ hook[c].Endpoint # "" /\ hook[c].Method # ""
         /\ Registrants(hook[c].Endpoint, hook[c].Method) = {c})
            => hook[c].Method \notin Active(hook[c].Endpoint)

\* C21 as stated: when two configurations registered the same endpoint with
\* the same method and one of them has been stopped and has returned, the
\* pair stays active for the other, which is running and not stopped.
C21_Original ==
    \A c \in Configs, d \in Configs :
        (/\ ~crashed
         /\ c # d
         /\ hook[c].Endpoint # "" /\ hook[c].Method # ""
         /\ hook[d].Endpoint = hook[c].Endpoint
         /\ hook[d].Method = hook[c].Method
         /\ stopCh[c] /\ wpc[c] = "returned"
         /\ wpc[d] = "wait" /\ ~stopCh[d])
            => hook[d].Method \in Active(hook[d].Endpoint)

====
